---- MODULE Spec2Model ----
(***************************************************************************)
(* Model of the pg-enhanced query layer of WhyIVote:                       *)
(*   - parseTaggedTemplate  (src/sql/utils/parse-tagged-template.js)       *)
(*   - generateDbErrorMessage                                              *)
(*                       (src/models/utils/generate-db-error-message.js)   *)
(*   - DBError and PgClient  (src/models/errors.js)                        *)
(*   - examineFilterKeys     (src/unnamed/part_000)                        *)
(* Text is modelled as TLA+ strings (character sequences), JavaScript      *)
(* values as tagged records.                                               *)
(***************************************************************************)
EXTENDS Integers, Sequences, FiniteSets, TLC

VARIABLES
  strings,   \* parseTaggedTemplate: the literal fragments of the template
  args,      \* parseTaggedTemplate: the interpolated values
  index,     \* position of the forEach callback (0-based, as in the code)
  text,      \* accumulator `text`
  values,    \* accumulator `values`
  result,    \* the returned QueryConfig, NoResult before the return
  pc,        \* "forEach" | "done" | "threw" | "idle"
  error,     \* generateDbErrorMessage: its argument
  results,   \* generateDbErrorMessage: the returned record, NoResult before
  dbpc,      \* "call" | "returned" | "threw" | "idle"
  originalError,  \* new DBError(originalError): its argument
  dbError,        \* the constructed DBError, NoResult before
  ctorpc,         \* "new" | "constructed" | "threw" | "idle"
  filterKeys,     \* examineFilterKeys: its argument
  examined,       \* examineFilterKeys: the returned record, NoResult before
  fkpc,           \* "call" | "returned" | "idle"
  autoClose,      \* PgClient: this._autoClose
  hasConnected,   \* PgClient: this._hasConnected
  hasClosed,      \* PgClient: this.hasClosed
  openClients,    \* PgClient._openClients, the static registry
  pgClient,       \* the state of the underlying pg.Client, this._pgClient
  calls,          \* the method calls made on the client, in the order started
  clientpc        \* "live" | "idle"

parserVars == <<strings, args, index, text, values, result, pc>>
dbVars == <<error, results, dbpc>>
ctorVars == <<originalError, dbError, ctorpc>>
filterVars == <<filterKeys, examined, fkpc>>
clientVars == <<autoClose, hasConnected, hasClosed, openClients, pgClient, calls, clientpc>>
vars == <<parserVars, dbVars, ctorVars, filterVars, clientVars>>

\* Largest number of interpolations in a template of the model.
MaxArgs == 2

-----------------------------------------------------------------------------
(* JavaScript values *)

Undefined == [type |-> "undefined"]
Null == [type |-> "null"]
Num(n) == [type |-> "number", n |-> n]
Str(s) == [type |-> "string", s |-> s]
Bool(b) == [type |-> "boolean", b |-> b]
Arr(items) == [type |-> "array", items |-> items]
\* A plain object: its own enumerable properties in insertion order.
Prop(k, v) == [key |-> k, val |-> v]
Obj(entries) == [type |-> "object", entries |-> entries]
NoResult == [type |-> "none"]

\* `typeof v`
TypeOf(v) ==
  CASE v.type = "undefined" -> "undefined"
    [] v.type = "number" -> "number"
    [] v.type = "string" -> "string"
    [] v.type = "boolean" -> "boolean"
    [] OTHER -> "object"

\* `Array.isArray(v)`
IsArray(v) == v.type = "array"

RECURSIVE Join(_, _)
\* `parts.join(sep)` for an array of strings
Join(parts, sep) ==
  IF Len(parts) = 0 THEN ""
  ELSE IF Len(parts) = 1 THEN parts[1]
  ELSE parts[1] \o sep \o Join(Tail(parts), sep)

RECURSIVE ReplaceAll(_, _, _)
\* `s.replace(/c/g, by)` for a one-character pattern c
ReplaceAll(s, c, by) ==
  IF Len(s) = 0 THEN ""
  ELSE (IF SubSeq(s, 1, 1) = c THEN by ELSE SubSeq(s, 1, 1))
       \o ReplaceAll(SubSeq(s, 2, Len(s)), c, by)

\* `obj[key]` on a plain object: the property's value, undefined when absent
Get(obj, key) ==
  IF \E i \in 1..Len(obj.entries) : obj.entries[i].key = key
  THEN obj.entries[CHOOSE i \in 1..Len(obj.entries) : obj.entries[i].key = key].val
  ELSE Undefined

\* `Object.keys(obj)` on a plain object (callers guard undefined/null)
ObjectKeys(obj) == [i \in 1..Len(obj.entries) |-> obj.entries[i].key]

\* `delete obj[key]`
RECURSIVE Delete(_, _)
Delete(obj, key) ==
  IF Len(obj.entries) = 0 THEN obj
  ELSE LET rest == Delete(Obj(Tail(obj.entries)), key).entries
       IN  IF obj.entries[1].key = key THEN Obj(rest)
           ELSE Obj(<<obj.entries[1]>> \o rest)

\* JavaScript truthiness, `if (v)`
Truthy(v) ==
  CASE v.type = "undefined" -> FALSE
    [] v.type = "null" -> FALSE
    [] v.type = "number" -> v.n # 0
    [] v.type = "string" -> v.s # ""
    [] v.type = "boolean" -> v.b
    [] OTHER -> TRUE

\* `JSON.stringify` of a string: quoted, with `"` and `\` escaped
JSONString(s) ==
  "\"" \o ReplaceAll(ReplaceAll(s, "\\", "\\\\"), "\"", "\\\"") \o "\""

RECURSIVE JSONStringify(_)
\* `JSON.stringify(v)` for null, primitives, arrays and plain objects
JSONStringify(v) ==
  CASE v.type = "null" -> "null"
    [] v.type = "number" -> ToString(v.n)
    [] v.type = "boolean" -> (IF v.b THEN "true" ELSE "false")
    [] v.type = "string" -> JSONString(v.s)
    [] v.type = "array" ->
         "[" \o Join([i \in 1..Len(v.items) |->
                        IF v.items[i].type = "undefined" THEN "null"
                        ELSE JSONStringify(v.items[i])], ",") \o "]"
    [] v.type = "object" ->
         LET present == SelectSeq(v.entries, LAMBDA p : p.val.type # "undefined")
         IN  "{" \o Join([i \in 1..Len(present) |->
                            JSONString(present[i].key) \o ":"
                            \o JSONStringify(present[i].val)], ",") \o "}"

RECURSIVE ToStr(_)
\* String conversion, as `text += arg`, `'...' + v` and `${v}` perform it
ToStr(v) ==
  CASE v.type = "string" -> v.s
    [] v.type = "number" -> ToString(v.n)
    [] v.type = "boolean" -> (IF v.b THEN "true" ELSE "false")
    [] v.type = "null" -> "null"
    [] v.type = "undefined" -> "undefined"
    [] v.type = "array" ->
         Join([i \in 1..Len(v.items) |->
                 IF v.items[i].type \in {"undefined", "null"} THEN ""
                 ELSE ToStr(v.items[i])], ",")
    [] OTHER -> "[object Object]"

-----------------------------------------------------------------------------
(* Escape values (escape-clients.js) *)

\* `new EscapeX(value)`: EscapeBase's constructor stores the value untouched
Escape(kind, value) == [type |-> "escape", kind |-> kind, value |-> value]

EscapeKinds ==
  {"EscapeAndDictionary", "EscapeArrayParameters", "EscapeDictionary",
   "EscapeIdentifier", "EscapeParameter", "EscapeKeysAndValues",
   "EscapeKeysAndValuesWithExpiresIn"}

\* `arg instanceof EscapeBase`
IsEscape(arg) == arg.type = "escape"

\* `pg.escapeIdentifier(str)`: '"' + str.replace(/"/g, '""') + '"'
escapeIdentifier(str) == "\"" \o ReplaceAll(str, "\"", "\"\"") \o "\""

-----------------------------------------------------------------------------
(* parseTaggedTemplate: the rendering of one interpolation.                *)
(* Every renderer returns [threw, arg, values]: the text the slot          *)
(* contributes and the values array after it.                              *)

Rendered(arg, vals) == [threw |-> FALSE, arg |-> arg, values |-> vals]
Thrown(vals) == [threw |-> TRUE, arg |-> "", values |-> vals]

RECURSIVE AndDictionaryLoop(_, _, _, _)
\* for (const key in dictionary) { ... } of the EscapeAndDictionary branch
AndDictionaryLoop(entries, i, vals, dictStrings) ==
  IF i > Len(entries) THEN Rendered(Join(dictStrings, ""), vals)
  ELSE IF entries[i].val = Undefined
       THEN AndDictionaryLoop(entries, i + 1, vals, dictStrings)
       ELSE LET pushed == Append(vals, entries[i].val)
            IN  AndDictionaryLoop(entries, i + 1, pushed,
                  Append(dictStrings,
                         " AND " \o escapeIdentifier(entries[i].key)
                         \o "=$" \o ToString(Len(pushed))))

RenderAndDictionary(value, vals) == AndDictionaryLoop(value.entries, 1, vals, <<>>)

RECURSIVE ArrayParametersLoop(_, _, _, _)
\* for (const value of arr) { ... } of the EscapeArrayParameters branch
ArrayParametersLoop(arr, i, vals, paramIndexes) ==
  IF i > Len(arr) THEN Rendered("ARRAY[" \o Join(paramIndexes, ", ") \o "]", vals)
  ELSE LET pushed == Append(vals, arr[i])
       IN  ArrayParametersLoop(arr, i + 1, pushed,
             Append(paramIndexes, "$" \o ToString(Len(pushed))))

RenderArrayParameters(value, vals) == ArrayParametersLoop(value.items, 1, vals, <<>>)

RECURSIVE DictionaryLoop(_, _, _, _)
\* for (const key in dictionary) { ... } of the EscapeDictionary branch
DictionaryLoop(entries, i, vals, dictStrings) ==
  IF i > Len(entries) THEN Rendered(Join(dictStrings, ", "), vals)
  ELSE LET pushed == Append(vals, entries[i].val)
       IN  DictionaryLoop(entries, i + 1, pushed,
             Append(dictStrings,
                    escapeIdentifier(entries[i].key) \o "=$" \o ToString(Len(pushed))))

RenderDictionary(value, vals) == DictionaryLoop(value.entries, 1, vals, <<>>)

\* Mutant of RenderIdentifier: quotes are put around the name without escaping it
RenderIdentifierUnescaped(value, vals) ==
  LET argValue == IF IsArray(value) THEN value.items ELSE <<value>>
  IN  Rendered(Join([i \in 1..Len(argValue) |-> "\"" \o argValue[i].s \o "\""], ", "),
               vals)

\* the EscapeIdentifier branch
RenderIdentifier(value, vals) ==
  LET argValue == IF IsArray(value) THEN value.items ELSE <<value>>
  IN  Rendered(Join([i \in 1..Len(argValue) |-> escapeIdentifier(argValue[i].s)], ", "),
               vals)

\* Mutant of RenderParameter: the index is taken before the push
RenderParameterIndexBeforePush(value, vals) ==
  Rendered("$" \o ToString(Len(vals)), Append(vals, value))

\* the EscapeParameter branch
RenderParameter(value, vals) ==
  LET pushed == Append(vals, value)
  IN  Rendered("$" \o ToString(Len(pushed)), pushed)

RECURSIVE KeysAndValuesRowsOwnKeys(_, _, _, _, _)
\* Mutant of KeysAndValuesRows: every row is read with its own keys
KeysAndValuesRowsOwnKeys(argValues, j, keys, rowValues, paramIndexGroups) ==
  IF j > Len(argValues) THEN <<rowValues, paramIndexGroups>>
  ELSE LET own == ObjectKeys(argValues[j])
       IN  KeysAndValuesRowsOwnKeys(argValues, j + 1, keys,
             rowValues \o [c \in 1..Len(own) |-> Get(argValues[j], own[c])],
             Append(paramIndexGroups,
                    [c \in 1..Len(own) |->
                       "$" \o ToString((Len(paramIndexGroups) * Len(own)) + (c - 1) + 1)]))

RECURSIVE KeysAndValuesRows(_, _, _, _, _)
\* argValues.forEach((argValue) => { ... }) of the EscapeKeysAndValues branch:
\* returns <<rowValues, paramIndexGroups>>
KeysAndValuesRows(argValues, j, keys, rowValues, paramIndexGroups) ==
  IF j > Len(argValues) THEN <<rowValues, paramIndexGroups>>
  ELSE KeysAndValuesRows(argValues, j + 1, keys,
         rowValues \o [c \in 1..Len(keys) |-> Get(argValues[j], keys[c])],
         Append(paramIndexGroups,
                [c \in 1..Len(keys) |->
                   "$" \o ToString((Len(paramIndexGroups) * Len(keys)) + (c - 1) + 1)]))

\* Mutant of TemplateKeys: a missing first row has no keys instead of throwing
TemplateKeysLenient(first) ==
  IF first.type \in {"undefined", "null"} THEN [threw |-> FALSE, keys |-> <<>>]
  ELSE [threw |-> FALSE, keys |-> ObjectKeys(first)]

\* `Object.keys(argValues[0])`: a TypeError when its argument is undefined or
\* null, as argValues[0] is for an empty array
TemplateKeys(first) ==
  IF first.type \in {"undefined", "null"} THEN [threw |-> TRUE, keys |-> <<>>]
  ELSE [threw |-> FALSE, keys |-> ObjectKeys(first)]

\* the EscapeKeysAndValues branch
RenderKeysAndValues(value, vals) ==
  LET argValues == IF IsArray(value) THEN value.items ELSE <<value>>
      first == IF Len(argValues) = 0 THEN Undefined ELSE argValues[1]
  IN  IF TemplateKeys(first).threw
      THEN Thrown(vals)
      ELSE LET keys == TemplateKeys(first).keys
               rowKeys == [c \in 1..Len(keys) |-> escapeIdentifier(keys[c])]
               rows == KeysAndValuesRows(argValues, 1, keys, <<>>, <<>>)
               groups == [g \in 1..Len(rows[2]) |-> "(" \o Join(rows[2][g], ",") \o ")"]
           IN  Rendered("(" \o Join(rowKeys, ",") \o ") VALUES " \o Join(groups, ","),
                        vals \o rows[1])

\* `{...obj}`: a new object holding the own properties of obj, in their order
SpreadCopy(obj) == Obj(obj.entries)

\* `if (argValue.expiresIn) { delete argValue.expiresIn; delete argValue.expiresAt;
\* delete argValue.expiresAtEpoch; }`: the object argValue refers to, afterwards
DeleteExpiryKeys(obj) ==
  IF Truthy(Get(obj, "expiresIn"))
  THEN Delete(Delete(Delete(obj, "expiresIn"), "expiresAt"), "expiresAtEpoch")
  ELSE obj

\* Mutant of ExpiresInObjects: `const argValue = arg.value`, so that argValue and
\* the payload are one object and the deletes act on the caller's object
ExpiresInObjectsAliased(value) ==
  [payload |-> DeleteExpiryKeys(value), argValue |-> DeleteExpiryKeys(value)]

\* The two objects of the EscapeKeysAndValuesWithExpiresIn branch once the deletes
\* have run: arg.value, which the caller passed, and the local copy
\* `const argValue = {...arg.value}` that the deletes act on
ExpiresInObjects(value) ==
  [payload |-> value, argValue |-> DeleteExpiryKeys(SpreadCopy(value))]

\* the EscapeKeysAndValuesWithExpiresIn branch
RenderKeysAndValuesWithExpiresIn(value, vals) ==
  LET hasExpiresIn == Truthy(Get(value, "expiresIn"))
      expiresIn == IF hasExpiresIn THEN Get(value, "expiresIn") ELSE Undefined
      argValue == ExpiresInObjects(value).argValue
      keys == ObjectKeys(argValue)
      index0 == Len(keys)   \* `index` after keys.map: i+1 of the last key, else 0
      rowKeys == [c \in 1..Len(keys) |-> escapeIdentifier(keys[c])]
      rowValues == [c \in 1..Len(keys) |-> Get(argValue, keys[c])]
      paramIndexes == [c \in 1..Len(keys) |-> "$" \o ToString(c)]
      allKeys == IF Truthy(expiresIn)
                 THEN rowKeys \o <<escapeIdentifier("expiresAt"),
                                   escapeIdentifier("expiresAtEpoch")>>
                 ELSE rowKeys
      allValues == IF Truthy(expiresIn) THEN rowValues \o <<expiresIn, expiresIn>>
                   ELSE rowValues
      allIndexes == IF Truthy(expiresIn)
                    THEN paramIndexes \o
                         <<"now() + $" \o ToString(index0 + 1) \o "::interval SECOND",
                           "FLOOR(EXTRACT(EPOCH FROM NOW())) + $" \o ToString(index0 + 2)>>
                    ELSE paramIndexes
  IN  Rendered("(" \o Join(allKeys, ", ") \o ") VALUES (" \o Join(allIndexes, ", ") \o ")",
               vals \o allValues)

\* Mutant of SkipSlot: the guard is missing and the absent value is appended
SkipSlotAppendsValue(arg, vals) == Rendered(ToStr(arg.value), vals)

\* `return` for an escape value whose value is undefined: nothing is appended
SkipSlot(arg, vals) == Rendered("", vals)

\* `arg = JSON.stringify(arg)` for any other object, then `text += arg`
RenderObject(arg, vals) == Rendered(JSONStringify(arg), vals)

\* Mutant of RenderPrimitive: a raw primitive is bound as a parameter
RenderPrimitiveAsParameter(arg, vals) ==
  Rendered("$" \o ToString(Len(vals) + 1), Append(vals, arg))

\* `text += arg` for a string, number or boolean
RenderPrimitive(arg, vals) == Rendered(ToStr(arg), vals)

\* The branch of the callback an interpolation takes (the if / else-if chain)
Branch(arg) ==
  CASE TypeOf(arg) = "undefined" -> "none"
    [] IsEscape(arg) /\ TypeOf(arg.value) = "undefined" -> "skip"
    [] IsEscape(arg) /\ TypeOf(arg.value) # "undefined" -> arg.kind
    [] ~IsEscape(arg) /\ TypeOf(arg) = "object" -> "object"
    [] OTHER -> "primitive"

\* What one interpolation contributes, given the values pushed so far
Render(arg, vals) ==
  CASE Branch(arg) = "none" -> Rendered("", vals)
    [] Branch(arg) = "skip" -> SkipSlot(arg, vals)
    [] Branch(arg) = "EscapeAndDictionary" -> RenderAndDictionary(arg.value, vals)
    [] Branch(arg) = "EscapeArrayParameters" -> RenderArrayParameters(arg.value, vals)
    [] Branch(arg) = "EscapeDictionary" -> RenderDictionary(arg.value, vals)
    [] Branch(arg) = "EscapeIdentifier" -> RenderIdentifier(arg.value, vals)
    [] Branch(arg) = "EscapeParameter" -> RenderParameter(arg.value, vals)
    [] Branch(arg) = "EscapeKeysAndValues" -> RenderKeysAndValues(arg.value, vals)
    [] Branch(arg) = "EscapeKeysAndValuesWithExpiresIn" ->
         RenderKeysAndValuesWithExpiresIn(arg.value, vals)
    [] Branch(arg) = "object" -> RenderObject(arg, vals)
    [] Branch(arg) = "primitive" -> RenderPrimitive(arg, vals)

\* Mutant of ResultValues: the values array is returned as it is, even empty
ResultValuesAlwaysList(vals) == Arr(vals)

\* `values.length ? values : undefined`
ResultValues(vals) == IF Len(vals) # 0 THEN Arr(vals) ELSE Undefined

RECURSIVE ParseFrom(_, _, _, _, _)
\* strings.forEach(...) from position i on, then the return statement
ParseFrom(ss, as, i, txt, vals) ==
  IF i = Len(ss) THEN [threw |-> FALSE, text |-> txt, values |-> ResultValues(vals)]
  ELSE LET r == Render(IF i < Len(as) THEN as[i + 1] ELSE Undefined, vals)
       IN  IF r.threw THEN [threw |-> TRUE, text |-> "", values |-> Undefined]
           ELSE ParseFrom(ss, as, i + 1, txt \o ss[i + 1] \o r.arg, r.values)

\* parseTaggedTemplate(strings, ...args) as a function of its arguments
parseTaggedTemplate(ss, as) == ParseFrom(ss, as, 0, "", <<>>)

-----------------------------------------------------------------------------
(* Inputs of the model *)

\* Payloads: plain objects (dictionaries / rows)
RowIdName == Obj(<<Prop("id", Num(1)), Prop("name", Str("x"))>>)
RowNameExtra == Obj(<<Prop("name", Str("y")), Prop("extra", Num(2))>>)
DictQuoted == Obj(<<Prop("id", Num(1)), Prop("na\"me", Str("x"))>>)
DictWithUndefined ==
  Obj(<<Prop("id", Num(1)), Prop("gone", Undefined), Prop("na\"me", Str("x"))>>)
RowExpires60 == Obj(<<Prop("id", Num(1)), Prop("expiresIn", Num(60))>>)
RowExpires0 == Obj(<<Prop("id", Num(1)), Prop("expiresIn", Num(0))>>)
RowExpiresAll ==
  Obj(<<Prop("expiresAt", Num(5)), Prop("id", Num(1)), Prop("expiresIn", Num(60)),
        Prop("expiresAtEpoch", Num(7))>>)

\* Raw (unwrapped) interpolations
RawPool ==
  {Undefined, Null, Num(5), Str("x"), Bool(TRUE), Obj(<<Prop("id", Str("a\"b"))>>)}

\* Escape values of every kind with an absent payload
UndefinedEscapes == {Escape(k, Undefined) : k \in EscapeKinds}

\* Escape values with a payload
WrappedPool ==
  {Escape("EscapeParameter", Str("a")),
   Escape("EscapeArrayParameters", Arr(<<Num(1), Num(2)>>)),
   Escape("EscapeDictionary", DictWithUndefined),
   Escape("EscapeAndDictionary", DictWithUndefined),
   Escape("EscapeIdentifier", Str("userName")),
   Escape("EscapeIdentifier", Arr(<<Str("a"), Str("b\"c")>>)),
   Escape("EscapeKeysAndValues", DictQuoted),
   Escape("EscapeKeysAndValues", Arr(<<RowIdName, RowNameExtra>>)),
   Escape("EscapeKeysAndValues", Arr(<<>>)),
   Escape("EscapeKeysAndValuesWithExpiresIn", RowExpires60),
   Escape("EscapeKeysAndValuesWithExpiresIn", RowExpires0),
   Escape("EscapeKeysAndValuesWithExpiresIn", RowExpiresAll)}

ArgPool == RawPool \cup UndefinedEscapes \cup WrappedPool

\* The literal fragments of a template: all empty, or distinct texts
Fragment(i) == IF i = 1 THEN "INSERT INTO t " ELSE " /*" \o ToString(i) \o "*/ "
FragmentStyles(n) == {[i \in 1..n |-> ""], [i \in 1..n |-> Fragment(i)]}

-----------------------------------------------------------------------------
(* parseTaggedTemplate as a state machine: one step per forEach callback *)

DbIdle == error = NoResult /\ results = NoResult /\ dbpc = "idle"
CtorIdle == originalError = NoResult /\ dbError = NoResult /\ ctorpc = "idle"
FilterIdle == filterKeys = NoResult /\ examined = NoResult /\ fkpc = "idle"
ClientIdle ==
  /\ autoClose = FALSE
  /\ hasConnected = FALSE
  /\ hasClosed = FALSE
  /\ openClients = <<>>
  /\ pgClient = NoResult
  /\ calls = <<>>
  /\ clientpc = "idle"

\* A call parseTaggedTemplate(strings, ...args): `text = ''`, `values = []`
InitParse ==
  /\ \E n \in 0..MaxArgs :
       /\ args \in [1..n -> ArgPool]
       /\ strings \in FragmentStyles(n + 1)
  /\ index = 0
  /\ text = ""
  /\ values = <<>>
  /\ result = NoResult
  /\ pc = "forEach"
  /\ DbIdle /\ CtorIdle /\ FilterIdle /\ ClientIdle

\* `args[index]`: undefined past the end of args
ArgAt(i) == IF i < Len(args) THEN args[i + 1] ELSE Undefined

\* The interpolation the caller passed, once the callback has run on it. The
\* callback rebinds its locals (`arg = ...`, `argValue = [argValue]`) and pushes
\* onto its own `values`; its only writes to an object are the deletes of the
\* EscapeKeysAndValuesWithExpiresIn branch
ArgAfter(arg) ==
  IF Branch(arg) = "EscapeKeysAndValuesWithExpiresIn"
  THEN Escape(arg.kind, ExpiresInObjects(arg.value).payload)
  ELSE arg

\* The interpolation list after the callback at position i
ArgsAfter(as, i) == [j \in 1..Len(as) |-> IF j = i + 1 THEN ArgAfter(as[j]) ELSE as[j]]

\* One invocation of the forEach callback: (stringSegment, index) => { ... }
Callback ==
  /\ pc = "forEach"
  /\ index < Len(strings)
  /\ LET r == Render(ArgAt(index), values)
     IN  IF r.threw
         THEN /\ text' = text \o strings[index + 1]
              /\ pc' = "threw"
              /\ UNCHANGED <<values, index>>
         ELSE /\ text' = text \o strings[index + 1] \o r.arg
              /\ values' = r.values
              /\ index' = index + 1
              /\ pc' = pc
  /\ args' = ArgsAfter(args, index)
  /\ UNCHANGED <<strings, result, dbVars, ctorVars, filterVars, clientVars>>

\* The callback on each branch of its if / else-if chain
CallbackNoArg ==
  /\ pc = "forEach"
  /\ Branch(ArgAt(index)) = "none"
  /\ Callback
CallbackSkip ==
  /\ pc = "forEach"
  /\ Branch(ArgAt(index)) = "skip"
  /\ Callback
CallbackAndDictionary ==
  /\ pc = "forEach"
  /\ Branch(ArgAt(index)) = "EscapeAndDictionary"
  /\ Callback
CallbackArrayParameters ==
  /\ pc = "forEach"
  /\ Branch(ArgAt(index)) = "EscapeArrayParameters"
  /\ Callback
CallbackDictionary ==
  /\ pc = "forEach"
  /\ Branch(ArgAt(index)) = "EscapeDictionary"
  /\ Callback
CallbackIdentifier ==
  /\ pc = "forEach"
  /\ Branch(ArgAt(index)) = "EscapeIdentifier"
  /\ Callback
CallbackParameter ==
  /\ pc = "forEach"
  /\ Branch(ArgAt(index)) = "EscapeParameter"
  /\ Callback
CallbackKeysAndValues ==
  /\ pc = "forEach"
  /\ Branch(ArgAt(index)) = "EscapeKeysAndValues"
  /\ Callback
CallbackKeysAndValuesWithExpiresIn ==
  /\ pc = "forEach"
  /\ Branch(ArgAt(index)) = "EscapeKeysAndValuesWithExpiresIn"
  /\ Callback
CallbackObject ==
  /\ pc = "forEach"
  /\ Branch(ArgAt(index)) = "object"
  /\ Callback
CallbackPrimitive ==
  /\ pc = "forEach"
  /\ Branch(ArgAt(index)) = "primitive"
  /\ Callback

\* const result = {text, values: values.length ? values : undefined}; return
Return ==
  /\ pc = "forEach"
  /\ index = Len(strings)
  /\ result' = [text |-> text, values |-> ResultValues(values)]
  /\ pc' = "done"
  /\ UNCHANGED <<strings, args, index, text, values, dbVars, ctorVars, filterVars, clientVars>>

ParseNext ==
  \/ CallbackNoArg
  \/ CallbackSkip
  \/ CallbackAndDictionary
  \/ CallbackArrayParameters
  \/ CallbackDictionary
  \/ CallbackIdentifier
  \/ CallbackParameter
  \/ CallbackKeysAndValues
  \/ CallbackKeysAndValuesWithExpiresIn
  \/ CallbackObject
  \/ CallbackPrimitive
  \/ Return

-----------------------------------------------------------------------------
(* generateDbErrorMessage *)

StartsWith(s, p) == Len(s) >= Len(p) /\ SubSeq(s, 1, Len(p)) = p
HasNewline(s) == \E i \in 1..Len(s) : SubSeq(s, i, i) = "\n"
\* `s.includes(sub)`
Includes(s, sub) ==
  \E i \in 1..(Len(s) - Len(sub) + 1) : SubSeq(s, i, i + Len(sub) - 1) = sub

RegexNoMatch == [matched |-> FALSE, groups |-> <<>>]

RECURSIVE RegexExec(_, _)
\* /^l1(.+?)l2(.+?)...ln$/.exec(s) for the literals lits = <<l1, ..., ln>>:
\* every (.+?) takes the fewest characters (at least one, none a newline) that
\* lets the rest of the pattern match; groups are the texts of the (.+?)
RegexExec(lits, s) ==
  IF ~StartsWith(s, lits[1]) THEN RegexNoMatch
  ELSE LET rest == SubSeq(s, Len(lits[1]) + 1, Len(s))
       IN  IF Len(lits) = 1
           THEN (IF rest = "" THEN [matched |-> TRUE, groups |-> <<>>] ELSE RegexNoMatch)
           ELSE LET after(l) == RegexExec(Tail(lits), SubSeq(rest, l + 1, Len(rest)))
                    fits == {l \in 1..Len(rest) :
                               after(l).matched /\ ~HasNewline(SubSeq(rest, 1, l))}
                IN  IF fits = {} THEN RegexNoMatch
                    ELSE LET l == CHOOSE l \in fits : \A m \in fits : l <= m
                         IN  [matched |-> TRUE,
                              groups |-> <<SubSeq(rest, 1, l)>> \o after(l).groups]

RECURSIVE Split(_, _)
\* `s.split(c)` for a one-character separator c
Split(s, c) ==
  IF \E i \in 1..Len(s) : SubSeq(s, i, i) = c
  THEN LET i == CHOOSE i \in 1..Len(s) :
                  /\ SubSeq(s, i, i) = c
                  /\ \A j \in 1..(i - 1) : SubSeq(s, j, j) # c
       IN  <<SubSeq(s, 1, i - 1)>> \o Split(SubSeq(s, i + 1, Len(s)), c)
  ELSE <<s>>

\* getQueryMethod(queryString): the first word longer than one character,
\* undefined when there is none
getQueryMethod(queryString) ==
  LET words == SelectSeq(Split(queryString, " "), LAMBDA w : Len(w) > 1)
  IN  IF Len(words) = 0 THEN Undefined ELSE Str(words[1])

\* The secondary pattern with a dot that also matches line terminators
AnalyzeQueryDotAll(q) ==
  LET n == Len(q)
      starts == {p \in 1..n : p + 5 <= n /\ SubSeq(q, p, p + 5) \in {"UPDATE", "INSERT"}}
      closes(a) == {b \in (a + 2)..n : SubSeq(q, b, b) = "\""}
      opens(p) == {a \in (p + 7)..n : SubSeq(q, a, a) = "\"" /\ closes(a) # {}}
      hits == {p \in starts : opens(p) # {}}
  IN  IF hits = {} THEN [matched |-> FALSE, groups |-> <<>>]
      ELSE LET p == CHOOSE p \in hits : \A m \in hits : p <= m
               a == CHOOSE a \in opens(p) : \A m \in opens(p) : a <= m
               b == CHOOSE b \in closes(a) : \A m \in closes(a) : b <= m
           IN  [matched |-> TRUE,
                groups |-> <<SubSeq(q, p, p + 5), SubSeq(q, a + 1, b - 1)>>]

\* /(UPDATE|INSERT).+?"(.+?)"/.exec(errorQuery): leftmost start, then the
\* nearest opening quote and the nearest closing quote that let it match
AnalyzeQuery(q) ==
  LET n == Len(q)
      starts == {p \in 1..n : p + 5 <= n /\ SubSeq(q, p, p + 5) \in {"UPDATE", "INSERT"}}
      closes(p, a) == {b \in (a + 2)..n :
                         SubSeq(q, b, b) = "\"" /\ ~HasNewline(SubSeq(q, p + 6, b - 1))}
      opens(p) == {a \in (p + 7)..n : SubSeq(q, a, a) = "\"" /\ closes(p, a) # {}}
      hits == {p \in starts : opens(p) # {}}
  IN  IF hits = {} THEN RegexNoMatch
      ELSE LET p == CHOOSE p \in hits : \A m \in hits : p <= m
               a == CHOOSE a \in opens(p) : \A m \in opens(p) : a <= m
               b == CHOOSE b \in closes(p, a) : \A m \in closes(p, a) : b <= m
           IN  [matched |-> TRUE,
                groups |-> <<SubSeq(q, p, p + 5), SubSeq(q, a + 1, b - 1)>>]

\* The error's fields as the function reads them
ErrorQuery(err) == IF Truthy(err.query) THEN err.query.s ELSE ""      \* error.query || ''
ErrorTable(err) == IF Truthy(err.table) THEN err.table.s ELSE ""      \* error.table || ''

\* The regular expressions, in the order they are tried
TooManyClientsExec(m) == RegexExec(<<"sorry, too many clients already">>, m)
\* The timeout pattern without its ^ and $ anchors
QueryTimeoutExecUnanchored(m) ==
  IF Includes(m, "Query read timeout") THEN [matched |-> TRUE, groups |-> <<>>]
  ELSE [matched |-> FALSE, groups |-> <<>>]
QueryTimeoutExec(m) == RegexExec(<<"Query read timeout">>, m)
DeleteFkExec(m) ==
  RegexExec(<<"update or delete on table \"", "\" violates foreign key constraint \"",
              "\" on table \"", "\"">>, m)
InsertFkExec(m) ==
  RegexExec(<<"insert or update on table \"", "\" violates foreign key constraint \"",
              "\"">>, m)
DuplicateKeyExec(m) ==
  RegexExec(<<"duplicate key value violates unique constraint \"", "\"">>, m)
TooLongExec(m) == RegexExec(<<"value too long for type ", "">>, m)
MissingRelationExec(m) == RegexExec(<<"relation \"", "\" does not exist">>, m)
NullValuesExec(m) ==
  RegexExec(<<"null value in column \"", "\" violates not-null constraint">>, m)
UndefinedValuesExec(m) ==
  RegexExec(<<"UNDEFINED_VALUE: Undefined values are not allowed">>, m)

\* The rule whose `if (...Result)` block the function enters
Rule(m) ==
  IF TooManyClientsExec(m).matched THEN "tooManyClients"
  ELSE IF QueryTimeoutExec(m).matched THEN "queryTimeout"
  ELSE IF DeleteFkExec(m).matched THEN "deleteFk"
  ELSE IF InsertFkExec(m).matched THEN "insertFk"
  ELSE IF DuplicateKeyExec(m).matched THEN "duplicateKey"
  ELSE IF TooLongExec(m).matched THEN "tooLong"
  ELSE IF MissingRelationExec(m).matched THEN "missingRelation"
  ELSE IF NullValuesExec(m).matched THEN "nullValues"
  ELSE IF UndefinedValuesExec(m).matched THEN "undefinedValues"
  ELSE "none"

DbResults(message, isTimeout, isTooMany) ==
  [threw |-> FALSE, message |-> message, isTimeoutError |-> isTimeout,
   isTooManyConnectionsError |-> isTooMany]
DbThrown ==
  [threw |-> TRUE, message |-> "", isTimeoutError |-> FALSE,
   isTooManyConnectionsError |-> FALSE]

\* The default message without the detail
DefaultResultsWithoutDetail(err) ==
  DbResults("Unrecognized Database Error: " \o ToStr(err.message) \o ".", FALSE, FALSE)

\* const results = { message: `Unrecognized Database Error: ...`, ... }
DefaultResults(err) ==
  DbResults("Unrecognized Database Error: " \o ToStr(err.message) \o ". Detail: "
            \o ToStr(err.detail), FALSE, FALSE)

\* `errorParameters[0]`: a TypeError when errorParameters is undefined or null
FirstParameter(err) ==
  IF err.parameters.type \in {"undefined", "null"} THEN [threw |-> TRUE, val |-> Undefined]
  ELSE IF Len(err.parameters.items) = 0 THEN [threw |-> FALSE, val |-> Undefined]
  ELSE [threw |-> FALSE, val |-> err.parameters.items[1]]

\* `JSON.stringify(args)` inside a template literal
StringifyArgs(v) == IF v.type = "undefined" THEN "undefined" ELSE JSONStringify(v)

\* The value-too-long rule, given the result of the secondary pattern
TooLongResults(analyzeQueryResult, err) ==
  IF ~analyzeQueryResult.matched THEN DefaultResults(err)
  ELSE DbResults("Could not " \o analyzeQueryResult.groups[1]
                 \o " item into \"" \o analyzeQueryResult.groups[2]
                 \o "\" table. A value is too long for db type \""
                 \o TooLongExec(err.message.s).groups[1] \o "\".", FALSE, FALSE)

\* What the function returns from the `if` block of rule (from its last line
\* for "none")
ResultsOfRule(rule, err) ==
  LET m == err.message.s
      errorDetail == ToStr(err.detail)
      errorQuery == ErrorQuery(err)
      errorTable == ErrorTable(err)
      queryMethod == ToStr(getQueryMethod(errorQuery))
  IN  CASE rule = "tooManyClients" ->
             DbResults("Too many database connections, try again later. Running query: "
                       \o ReplaceAll(errorQuery, "\n", ""), FALSE, TRUE)
        [] rule = "queryTimeout" ->
             DbResults("Query timed out. Running query: "
                       \o ReplaceAll(errorQuery, "\n", ""), TRUE, FALSE)
        [] rule = "deleteFk" ->
             DbResults("Could not " \o queryMethod \o " item from \""
                       \o DeleteFkExec(m).groups[1] \o "\" table. Detail: " \o errorDetail,
                       FALSE, FALSE)
        [] rule = "insertFk" ->
             IF FirstParameter(err).threw THEN DbThrown
             ELSE DbResults("Could not " \o queryMethod \o " item \""
                            \o ToStr(FirstParameter(err).val) \o "\" into \""
                            \o InsertFkExec(m).groups[1] \o "\" table. Detail: "
                            \o errorDetail, FALSE, FALSE)
        [] rule = "duplicateKey" ->
             IF FirstParameter(err).threw THEN DbThrown
             ELSE LET first == FirstParameter(err).val
                      itemId == IF TypeOf(first) = "object" THEN JSONStringify(first)
                                ELSE ToStr(first)
                  IN  DbResults("Could not " \o queryMethod \o " item \"" \o itemId
                                \o "\" into \"" \o errorTable \o "\" table. Detail: "
                                \o errorDetail, FALSE, FALSE)
        [] rule = "tooLong" -> TooLongResults(AnalyzeQuery(errorQuery), err)
        [] rule = "missingRelation" ->
             DbResults("Could not perform " \o queryMethod \o " operation on missing table \""
                       \o MissingRelationExec(m).groups[1] \o "\".", FALSE, FALSE)
        [] rule = "nullValues" ->
             DbResults("Could not " \o queryMethod \o " item in \"" \o errorTable
                       \o "\" table. Unexpected null value for \""
                       \o NullValuesExec(m).groups[1] \o "\" column.", FALSE, FALSE)
        [] rule = "undefinedValues" ->
             DbResults("Unexpected undefined value applying data to database. Args: "
                       \o StringifyArgs(err.args) \o ".", FALSE, FALSE)
        [] OTHER -> DefaultResults(err)

\* generateDbErrorMessage(error): the rules are tried in order, the first
\* whose pattern matches returns
generateDbErrorMessage(err) == ResultsOfRule(Rule(err.message.s), err)

-----------------------------------------------------------------------------
(* Error inputs of the model *)

MessagePool ==
  {"sorry, too many clients already",
   "Query read timeout",
   "update or delete on table \"authors\" violates foreign key constraint \"books_authorId_fkey\" on table \"books\"",
   "insert or update on table \"books\" violates foreign key constraint \"books_authorId_fkey\"",
   "duplicate key value violates unique constraint \"users_email_key\"",
   "value too long for type character varying(255)",
   "relation \"missing\" does not exist",
   "null value in column \"name\" violates not-null constraint",
   "UNDEFINED_VALUE: Undefined values are not allowed",
   "some other db failure",
   "Query read timeout exceeded",
   "FATAL: sorry, too many clients already"}

DetailPool == {Undefined, Str("Key (email)=(a@b.com) already exists.")}
TablePool == {Undefined, Str("users")}
QueryPool ==
  {Undefined, Str("SELECT 1"), Str("INSERT INTO users (email) VALUES ($1)"),
   Str("\n    UPDATE \"users\" SET \"name\"=$1\n    WHERE id=$2"),
   Str("UPDATE\n  \"users\"\nSET \"name\"=$1"),
   Str("\nDELETE FROM authors WHERE id=$1")}
ParametersPool ==
  {Undefined, Arr(<<>>), Arr(<<Str("a@b.com")>>), Arr(<<Obj(<<Prop("id", Num(1))>>)>>)}
ErrorArgsPool == {Undefined, Arr(<<Str("a"), Undefined>>)}

ParserIdle ==
  /\ strings = <<>>
  /\ args = <<>>
  /\ index = 0
  /\ text = ""
  /\ values = <<>>
  /\ result = NoResult
  /\ pc = "idle"

\* A call generateDbErrorMessage(error)
InitClassify ==
  /\ error \in [message : {Str(m) : m \in MessagePool}, detail : DetailPool,
                table : TablePool, query : QueryPool, parameters : ParametersPool,
                args : ErrorArgsPool]
  /\ results = NoResult
  /\ dbpc = "call"
  /\ ParserIdle /\ CtorIdle /\ FilterIdle /\ ClientIdle

\* The call runs to its return statement, or to the exception it raises
Classify ==
  /\ dbpc = "call"
  /\ results' = generateDbErrorMessage(error)
  /\ dbpc' = IF results'.threw THEN "threw" ELSE "returned"
  /\ UNCHANGED <<error, parserVars, ctorVars, filterVars, clientVars>>

\* The call on each of its return paths
ClassifyTooManyClients == dbpc = "call" /\ Rule(error.message.s) = "tooManyClients" /\ Classify
ClassifyQueryTimeout == dbpc = "call" /\ Rule(error.message.s) = "queryTimeout" /\ Classify
ClassifyDeleteFk == dbpc = "call" /\ Rule(error.message.s) = "deleteFk" /\ Classify
ClassifyInsertFk == dbpc = "call" /\ Rule(error.message.s) = "insertFk" /\ Classify
ClassifyDuplicateKey == dbpc = "call" /\ Rule(error.message.s) = "duplicateKey" /\ Classify
ClassifyTooLong == dbpc = "call" /\ Rule(error.message.s) = "tooLong" /\ Classify
ClassifyMissingRelation == dbpc = "call" /\ Rule(error.message.s) = "missingRelation" /\ Classify
ClassifyNullValues == dbpc = "call" /\ Rule(error.message.s) = "nullValues" /\ Classify
ClassifyUndefinedValues == dbpc = "call" /\ Rule(error.message.s) = "undefinedValues" /\ Classify
ClassifyDefault == dbpc = "call" /\ Rule(error.message.s) = "none" /\ Classify

ClassifyNext ==
  \/ ClassifyTooManyClients
  \/ ClassifyQueryTimeout
  \/ ClassifyDeleteFk
  \/ ClassifyInsertFk
  \/ ClassifyDuplicateKey
  \/ ClassifyTooLong
  \/ ClassifyMissingRelation
  \/ ClassifyNullValues
  \/ ClassifyUndefinedValues
  \/ ClassifyDefault

-----------------------------------------------------------------------------
(* DBError (errors.js) *)

\* An error object: its class and the fields the classifier reads
RawError(class, message, query, parameters) ==
  [type |-> "error", class |-> class, message |-> Str(message), detail |-> Undefined,
   table |-> Undefined, query |-> query, parameters |-> parameters, args |-> Undefined]

\* `new Error(message)`
NewError(message) == RawError("Error", message, Undefined, Undefined)

\* A DBError instance: message, statusCode and originalError
DBErrorObject(message, statusCode, original) ==
  [type |-> "error", class |-> "DBError", message |-> Str(message),
   statusCode |-> statusCode, originalError |-> original]

\* `originalError instanceof DBError`, `originalError instanceof DatabaseError`
IsDBError(e) == e.type = "error" /\ e.class = "DBError"
IsDatabaseError(e) == e.type = "error" /\ e.class = "DatabaseError"

\* `originalError?.message`: undefined for undefined, null and primitives
MessageOf(e) == IF e.type = "error" THEN e.message ELSE Undefined

\* `originalError?.message?.includes(...)`
couldBeTimeoutError(e) ==
  MessageOf(e).type = "string" /\ Includes(MessageOf(e).s, "Query read timeout")
couldBeUndefinedError(e) ==
  MessageOf(e).type = "string" /\ Includes(MessageOf(e).s, "UNDEFINED_VALUE")

\* The classifier applied to every error object, whatever its class and message
ShouldClassifyAnyError(e) == e.type = "error"

\* The negation of `!isDatabaseError && !couldBeTimeoutError && !couldBeUndefinedError`
ShouldClassify(e) ==
  IsDatabaseError(e) \/ couldBeTimeoutError(e) \/ couldBeUndefinedError(e)

\* The status of a classified error when only the timeout flag is looked at
StatusCodeTimeoutOnly(r) == IF r.isTimeoutError THEN 429 ELSE 400

\* statusCode = 400; if (isTimeoutError || isTooManyConnectionsError) statusCode = 429
StatusCode(r) ==
  IF r.isTimeoutError \/ r.isTooManyConnectionsError THEN 429 ELSE 400

CtorThrown == [threw |-> TRUE, obj |-> NoResult]
Constructed(obj) == [threw |-> FALSE, obj |-> obj]

\* The constructor from line 62 on, given the classifier's result r (an
\* exception of the classifier leaves the constructor)
Classified(r, e) ==
  IF r.threw THEN CtorThrown
  ELSE Constructed(DBErrorObject(r.message, StatusCode(r), e))

\* The path the constructor takes
CtorPath(e) ==
  IF IsDBError(e) THEN "copy"
  ELSE IF ~ShouldClassify(e) THEN "minimal"
  ELSE "classify"

\* new DBError(originalError)
DBErrorNew(e) ==
  CASE CtorPath(e) = "copy" ->
         Constructed(DBErrorObject(e.message.s, e.statusCode, e.originalError))
    [] CtorPath(e) = "minimal" ->
         IF e.type \in {"undefined", "null"} THEN CtorThrown   \* originalError.message
         ELSE LET wrapped == IF TypeOf(e) = "string" THEN NewError(e.s) ELSE e
              IN  Constructed(DBErrorObject(wrapped.message.s, 400, wrapped))
    [] CtorPath(e) = "classify" -> Classified(generateDbErrorMessage(e), e)

\* Inputs of the constructor in the model
CtorMessagePool ==
  {"Query read timeout",
   "sorry, too many clients already",
   "Query read timeout exceeded",
   "UNDEFINED_VALUE: Undefined values are not allowed",
   "insert or update on table \"books\" violates foreign key constraint \"books_authorId_fkey\"",
   "connect ECONNREFUSED 127.0.0.1:5432"}

ErrorObjectPool ==
  {RawError(class, m, q, p) :
     class \in {"Error", "DatabaseError"}, m \in CtorMessagePool,
     q \in {Undefined, Str("SELECT 1")}, p \in {Undefined, Arr(<<Num(7)>>)}}

DBErrorPool ==
  {DBErrorNew(RawError("Error", "Query read timeout", Str("SELECT 1"), Undefined)).obj,
   DBErrorNew(NewError("connect ECONNREFUSED 127.0.0.1:5432")).obj}

OriginalErrorPool ==
  ErrorObjectPool \cup DBErrorPool
  \cup {Str("connect ECONNREFUSED 127.0.0.1:5432"), Str("Query read timeout"), Undefined}

\* A call new DBError(originalError)
InitConstruct ==
  /\ originalError \in OriginalErrorPool
  /\ dbError = NoResult
  /\ ctorpc = "new"
  /\ ParserIdle /\ DbIdle /\ FilterIdle /\ ClientIdle

\* The constructor runs to its end, or to the exception it raises
Construct ==
  /\ ctorpc = "new"
  /\ dbError' = DBErrorNew(originalError).obj
  /\ ctorpc' = IF dbError' = NoResult THEN "threw" ELSE "constructed"
  /\ UNCHANGED <<originalError, parserVars, dbVars, filterVars, clientVars>>

\* The constructor on each of its paths
ConstructCopy == ctorpc = "new" /\ CtorPath(originalError) = "copy" /\ Construct
ConstructMinimal == ctorpc = "new" /\ CtorPath(originalError) = "minimal" /\ Construct
ConstructClassified == ctorpc = "new" /\ CtorPath(originalError) = "classify" /\ Construct

ConstructNext ==
  \/ ConstructCopy
  \/ ConstructMinimal
  \/ ConstructClassified

-----------------------------------------------------------------------------
(* examineFilterKeys (src/unnamed/part_000) *)

\* Largest number of keys of a filter keys object in the model.
MaxKeys == 2

RECURSIVE ExamineLoop(_, _, _, _)
\* for (const key in filterKeys) { ... } from the i-th key on:
\* <<areEmptyStringFilterKeys, areAllFilterKeysUndefined>> when the loop ends
ExamineLoop(entries, i, areEmptyString, areAllUndefined) ==
  IF i > Len(entries) THEN <<areEmptyString, areAllUndefined>>
  ELSE LET emptyString == areEmptyString \/ entries[i].val = Str("")
       IN  IF TypeOf(entries[i].val) # "undefined"
           THEN <<emptyString, FALSE>>                         \* break
           ELSE ExamineLoop(entries, i + 1, emptyString, areAllUndefined)

\* examineFilterKeys(filterKeys)
examineFilterKeys(fk) ==
  LET areFilterKeysFalsy == ~Truthy(fk)
      areFilterKeysEmpty == ~areFilterKeysFalsy /\ Len(ObjectKeys(fk)) = 0
      loop == IF fk.type = "object" THEN ExamineLoop(fk.entries, 1, FALSE, TRUE)
              ELSE <<FALSE, TRUE>>
  IN  [areEmptyStringFilterKeys |-> loop[1],
       areFilterKeysEmpty |-> areFilterKeysEmpty,
       areFilterKeysFalsy |-> areFilterKeysFalsy,
       areAllFilterKeysUndefined |-> loop[2]]

\* Inputs: a missing object, null, and objects of up to MaxKeys keys
FilterValuePool == {Undefined, Str(""), Str("a"), Num(0)}
FilterKeyName(i) == "k" \o ToString(i)
FilterKeysPool ==
  {Undefined, Null}
  \cup UNION {{Obj([i \in 1..n |-> Prop(FilterKeyName(i), vs[i])]) :
                 vs \in [1..n -> FilterValuePool]} : n \in 0..MaxKeys}

\* A call examineFilterKeys(filterKeys)
InitExamine ==
  /\ filterKeys \in FilterKeysPool
  /\ examined = NoResult
  /\ fkpc = "call"
  /\ ParserIdle /\ DbIdle /\ CtorIdle /\ ClientIdle

\* The call runs to its return statement
Examine ==
  /\ fkpc = "call"
  /\ examined' = examineFilterKeys(filterKeys)
  /\ fkpc' = "returned"
  /\ UNCHANGED <<filterKeys, parserVars, dbVars, ctorVars, clientVars>>

\* The call on a missing object, on an object without keys, on an object with keys
ExamineFalsy == fkpc = "call" /\ ~Truthy(filterKeys) /\ Examine
ExamineEmpty ==
  fkpc = "call" /\ Truthy(filterKeys) /\ Len(ObjectKeys(filterKeys)) = 0 /\ Examine
ExamineKeys ==
  fkpc = "call" /\ Truthy(filterKeys) /\ Len(ObjectKeys(filterKeys)) > 0 /\ Examine

ExamineNext ==
  \/ ExamineFalsy
  \/ ExamineEmpty
  \/ ExamineKeys

-----------------------------------------------------------------------------
(* PgClient (errors.js): connect, end, query and cursorQuery.  Each action is *)
(* the code a call runs between two awaits.                                   *)

\* Largest number of method calls made on the client in the model.
MaxCalls == 2

\* this._pgClient, as the element PgClient._openClients holds
ThisPgClient == "pgClient"

\* A new pg.Client: whether connect was called on it, whether its connection
\* is established, whether end was called on it
NewPgClient == [type |-> "pg.Client", connectCalled |-> FALSE, connected |-> FALSE,
                ended |-> FALSE]

\* The rejection of pg.Client.connect on a client connect was already called on
AlreadyConnectedError ==
  RawError("Error", "Client has already been connected. You cannot reuse a client.",
           Undefined, Undefined)

\* The TypeError raised by `errorParameters[0]` on absent parameters
ParametersTypeError ==
  RawError("TypeError", "Cannot read properties of undefined (reading '0')",
           Undefined, Undefined)

\* The arguments (params, values) of query and cursorQuery in the model
QueryArgsPool ==
  {<<Str("INSERT INTO \"books\" (\"authorId\") VALUES (7)"), Undefined>>,
   <<[type |-> "object", text |-> Str("INSERT INTO \"books\" (\"authorId\") VALUES ($1)"),
      values |-> Arr(<<Num(7)>>)], Undefined>>}

\* The failures of pg.Client.connect and pg.Client.query in the model
ConnectErrorPool ==
  {RawError("DatabaseError", "sorry, too many clients already", Undefined, Undefined),
   RawError("Error", "connect ECONNREFUSED 127.0.0.1:5432", Undefined, Undefined)}
QueryErrorPool ==
  {RawError("DatabaseError",
            "insert or update on table \"books\" violates foreign key constraint \"books_authorId_fkey\"",
            Undefined, Undefined),
   RawError("Error", "Query read timeout", Undefined, Undefined)}

\* if (typeof params === 'string') queryConfig = {text: params, values}
QueryConfig(params, vals) ==
  IF TypeOf(params) = "string" THEN [text |-> params, values |-> vals]
  ELSE [text |-> params.text, values |-> params.values]

NoConfig == [text |-> Undefined, values |-> Undefined]

\* e.query = queryConfig.text; e.parameters = queryConfig.values
Augment(e, queryConfig) ==
  [e EXCEPT !.query = queryConfig.text, !.parameters = queryConfig.values]

\* `throw new DBError(e)`: the DBError, or the exception of its constructor
ThrownBy(constructed) ==
  IF constructed.threw THEN ParametersTypeError ELSE constructed.obj

\* e.query = ...; e.parameters = ...; throw new DBError(e): the value thrown
Wrap(e, queryConfig) == ThrownBy(DBErrorNew(Augment(e, queryConfig)))

\* A call: its method, its queryConfig, where it stands, which connect it
\* awaits ("real": the one pg performs, "already": the one pg rejects as a
\* reuse of the client), and the value it was rejected with
Call(op, queryConfig, at, pending) ==
  [op |-> op, queryConfig |-> queryConfig, pc |-> at, pending |-> pending,
   thrown |-> NoResult]

\* A new PgClient(pgConfig, opts)
InitClient ==
  /\ autoClose \in BOOLEAN
  /\ hasConnected = FALSE
  /\ hasClosed = FALSE
  /\ openClients = <<>>
  /\ pgClient = NewPgClient
  /\ calls = <<>>
  /\ clientpc = "live"
  /\ ParserIdle /\ DbIdle /\ CtorIdle /\ FilterIdle

otherThanClient == <<parserVars, dbVars, ctorVars, filterVars>>

\* connect() up to its await: `if (!this._hasConnected)`, this._pgClient.connect()
ConnectBegin(op, queryConfig) ==
  /\ clientpc = "live"
  /\ Len(calls) < MaxCalls
  /\ IF hasConnected
     THEN /\ calls' = Append(calls, Call(op, queryConfig,
                                         IF op = "connect" THEN "resolved" ELSE "awaitQuery",
                                         "none"))
          /\ UNCHANGED pgClient
     ELSE /\ calls' = Append(calls, Call(op, queryConfig, "awaitConnect",
                                         IF pgClient.connectCalled THEN "already" ELSE "real"))
          /\ pgClient' = [pgClient EXCEPT !.connectCalled = TRUE]
  /\ UNCHANGED <<autoClose, hasConnected, hasClosed, openClients, clientpc, otherThanClient>>

\* connect() is called
CallConnect ==
  /\ clientpc = "live"
  /\ ConnectBegin("connect", NoConfig)

\* query(params, values) is called: queryConfig, then `await this.connect()`
CallQuery ==
  /\ clientpc = "live"
  /\ \E a \in QueryArgsPool : ConnectBegin("query", QueryConfig(a[1], a[2]))

\* cursorQuery(params, values) is called
CallCursorQuery ==
  /\ clientpc = "live"
  /\ \E a \in QueryArgsPool : ConnectBegin("cursorQuery", QueryConfig(a[1], a[2]))

\* `openClients.splice(clientIndex, 1)` for the first index of client, if any
RemoveFirst(registry, client) ==
  IF \E k \in 1..Len(registry) : registry[k] = client
  THEN LET clientIndex == CHOOSE k \in 1..Len(registry) :
                            /\ registry[k] = client
                            /\ \A j \in 1..(k - 1) : registry[j] # client
       IN  SubSeq(registry, 1, clientIndex - 1)
           \o SubSeq(registry, clientIndex + 1, Len(registry))
  ELSE registry

\* end() is called: PgClient._closeClient(this) up to `client._pgClient.end()`
CallEnd ==
  /\ clientpc = "live"
  /\ Len(calls) < MaxCalls
  /\ openClients' = RemoveFirst(openClients, ThisPgClient)
  /\ hasClosed' = TRUE
  /\ pgClient' = [pgClient EXCEPT !.ended = TRUE]
  /\ calls' = Append(calls, Call("end", NoConfig, "awaitEnd", "none"))
  /\ UNCHANGED <<autoClose, hasConnected, clientpc, otherThanClient>>

\* The promise of client._pgClient.end() resolves
EndResolves ==
  \E i \in 1..Len(calls) :
    /\ calls[i].pc = "awaitEnd"
    /\ calls' = [calls EXCEPT ![i].pc = "resolved"]
    /\ UNCHANGED <<autoClose, hasConnected, hasClosed, openClients, pgClient, clientpc,
                   otherThanClient>>

\* connect() after its try statement: this._hasConnected = true;
\* if (this._autoClose) PgClient._openClients.push(this._pgClient);
\* then query and cursorQuery go on to this._pgClient.query(...)
Connected(i) ==
  /\ hasConnected' = TRUE
  /\ openClients' = IF autoClose THEN Append(openClients, ThisPgClient) ELSE openClients
  /\ calls' = [calls EXCEPT
                 ![i].pc = IF calls[i].op = "connect" THEN "resolved" ELSE "awaitQuery",
                 ![i].pending = "none"]

\* `await this._pgClient.connect()` resolves: the connection is established
ConnectResolves ==
  \E i \in 1..Len(calls) :
    /\ calls[i].pc = "awaitConnect"
    /\ calls[i].pending = "real"
    /\ ~pgClient.ended
    /\ pgClient' = [pgClient EXCEPT !.connected = TRUE]
    /\ Connected(i)
    /\ UNCHANGED <<autoClose, hasClosed, clientpc, otherThanClient>>

\* `await this._pgClient.connect()` rejects because connect was already called
\* on the pg client: the catch block leaves the try statement (break tryConnect)
ConnectAlreadyConnected ==
  \E i \in 1..Len(calls) :
    /\ calls[i].pc = "awaitConnect"
    /\ calls[i].pending = "already"
    /\ Includes(AlreadyConnectedError.message.s, "Client has already been connected")
    /\ Connected(i)
    /\ UNCHANGED <<autoClose, hasClosed, pgClient, clientpc, otherThanClient>>

\* `await this._pgClient.connect()` rejects with another error e, which
\* connect() throws on (throw e); a direct call of connect() rejects with e,
\* query and cursorQuery catch it and throw new DBError(e)
ConnectThrows(op) ==
  \E i \in 1..Len(calls) : \E e \in ConnectErrorPool :
    /\ calls[i].op = op
    /\ calls[i].pc = "awaitConnect"
    /\ calls[i].pending = "real"
    /\ ~Includes(e.message.s, "Client has already been connected")
    /\ calls' = [calls EXCEPT ![i].pc = "rejected", ![i].pending = "none",
                              ![i].thrown = IF op = "connect" THEN e
                                            ELSE Wrap(e, calls[i].queryConfig)]
    /\ UNCHANGED <<autoClose, hasConnected, hasClosed, openClients, pgClient, clientpc,
                   otherThanClient>>

\* connect() called directly: `throw e`
ConnectRejects ==
  /\ clientpc = "live"
  /\ ConnectThrows("connect")
\* query: catch(e) of `await this.connect()`
QueryConnectRejects ==
  /\ clientpc = "live"
  /\ ConnectThrows("query")
\* cursorQuery: catch(e) of `await this.connect()`
CursorQueryConnectRejects ==
  /\ clientpc = "live"
  /\ ConnectThrows("cursorQuery")

\* `await this._pgClient.query(...)` resolves: the call of method op returns
PgQueryResolves(op) ==
  \E i \in 1..Len(calls) :
    /\ calls[i].op = op
    /\ calls[i].pc = "awaitQuery"
    /\ pgClient.connected
    /\ ~pgClient.ended
    /\ calls' = [calls EXCEPT ![i].pc = "resolved"]
    /\ UNCHANGED <<autoClose, hasConnected, hasClosed, openClients, pgClient, clientpc,
                   otherThanClient>>

\* `await this._pgClient.query(...)` rejects with e: catch(e), throw new DBError(e)
PgQueryRejects(op) ==
  \E i \in 1..Len(calls) : \E e \in QueryErrorPool :
    /\ calls[i].op = op
    /\ calls[i].pc = "awaitQuery"
    /\ calls' = [calls EXCEPT ![i].pc = "rejected",
                              ![i].thrown = Wrap(e, calls[i].queryConfig)]
    /\ UNCHANGED <<autoClose, hasConnected, hasClosed, openClients, pgClient, clientpc,
                   otherThanClient>>

QueryResolves ==
  /\ clientpc = "live"
  /\ PgQueryResolves("query")
QueryRejects ==
  /\ clientpc = "live"
  /\ PgQueryRejects("query")
CursorQueryResolves ==
  /\ clientpc = "live"
  /\ PgQueryResolves("cursorQuery")
CursorQueryRejects ==
  /\ clientpc = "live"
  /\ PgQueryRejects("cursorQuery")

ClientNext ==
  \/ CallConnect
  \/ CallQuery
  \/ CallCursorQuery
  \/ CallEnd
  \/ EndResolves
  \/ ConnectResolves
  \/ ConnectAlreadyConnected
  \/ ConnectRejects
  \/ QueryConnectRejects
  \/ CursorQueryConnectRejects
  \/ QueryResolves
  \/ QueryRejects
  \/ CursorQueryResolves
  \/ CursorQueryRejects

-----------------------------------------------------------------------------
Init == InitParse \/ InitClassify \/ InitConstruct \/ InitExamine \/ InitClient
Next == ParseNext \/ ClassifyNext \/ ConstructNext \/ ExamineNext \/ ClientNext
Spec == Init /\ [][Next]_vars


-----------------------------------------------------------------------------
(* Properties *)

\* The state is inside a call of parseTaggedTemplate whose next step is the
\* forEach callback on an interpolation of branch b
AtCallback(b) ==
  pc = "forEach" /\ index < Len(strings) /\ Branch(ArgAt(index)) = b

\* The text a completed callback appended after its string segment
SlotText == SubSeq(text', Len(text) + Len(strings[index + 1]) + 1, Len(text'))

IsDigit(c) == c \in {"0", "1", "2", "3", "4", "5", "6", "7", "8", "9"}
DigitValue(c) == CHOOSE d \in 0..9 : ToString(d) = c

RECURSIVE ReadNumber(_, _, _)
\* The decimal number starting at position i of s: <<its value, the position after it>>
ReadNumber(s, i, acc) ==
  IF i <= Len(s) /\ IsDigit(SubSeq(s, i, i))
  THEN ReadNumber(s, i + 1, (acc * 10) + DigitValue(SubSeq(s, i, i)))
  ELSE <<acc, i>>

RECURSIVE PlaceholdersFrom(_, _)
\* The numbers n of the placeholders $n of s from position i on, left to right
PlaceholdersFrom(s, i) ==
  LET marks == {j \in i..(Len(s) - 1) :
                  SubSeq(s, j, j) = "$" /\ IsDigit(SubSeq(s, j + 1, j + 1))}
  IN  IF marks = {} THEN <<>>
      ELSE LET j == CHOOSE j \in marks : \A m \in marks : j <= m
               num == ReadNumber(s, j + 1, 0)
           IN  <<num[1]>> \o PlaceholdersFrom(s, num[2])

Placeholders(s) == PlaceholdersFrom(s, 1)

\* C1: in the result of parseTaggedTemplate the placeholders of text, read left
\* to right, are exactly $1, $2, ..., $n, where n is the length of values, for
\* every sequence of interpolations.
ParameterKinds ==
  {"EscapeParameter", "EscapeArrayParameters", "EscapeDictionary", "EscapeAndDictionary",
   "EscapeKeysAndValues", "EscapeKeysAndValuesWithExpiresIn"}

C1_PlaceholdersGapFree ==
  (/\ pc = "done"
   /\ \A i \in 1..Len(args) : IsEscape(args[i]) /\ args[i].kind \in ParameterKinds) =>
    LET n == IF result.values = Undefined THEN 0 ELSE Len(result.values.items)
    IN  Placeholders(result.text) = [k \in 1..n |-> k]

\* C2: generateDbErrorMessage never throws: every call returns a result.
C2_ClassifierNeverThrows == dbpc # "threw"

\* C3: the values field of the result is never an empty list: it is absent
\* exactly when nothing was pushed, and otherwise it is the list of the pushed
\* parameters in push order (values only ever grows at its end).
C3_ValuesAbsentOrNonEmpty ==
  /\ [](pc = "done" =>
          /\ result.values # Arr(<<>>)
          /\ (result.values = Undefined) <=> (Len(values) = 0)
          /\ (Len(values) # 0) => (result.values = Arr(values)))
  /\ [][Len(values') >= Len(values) /\ SubSeq(values', 1, Len(values)) = values]_vars

\* An escape value that pushes nothing was assembled and values came out absent
C3_Witness ==
  /\ pc = "done"
  /\ result.values = Undefined
  /\ \E i \in 1..Len(args) : IsEscape(args[i]) /\ args[i].value # Undefined

IsRawPrimitive(v) == v.type \in {"string", "number", "boolean", "null"}

\* The literal text form of a primitive
LiteralText(v) ==
  CASE v.type = "string" -> v.s
    [] v.type = "number" -> ToString(v.n)
    [] v.type = "boolean" -> (IF v.b THEN "true" ELSE "false")
    [] v.type = "null" -> "null"

\* C4: a raw primitive interpolation (string, number, boolean, null) appends
\* its literal text form to text at its slot and leaves values unchanged; only
\* escape values ever add entries to values.
C4_RawPrimitivesAreLiteral ==
  /\ [][(pc = "forEach" /\ index < Len(strings) /\ IsRawPrimitive(ArgAt(index))) =>
          /\ text' = text \o strings[index + 1] \o LiteralText(ArgAt(index))
          /\ values' = values]_vars
  /\ [][(values' # values) => IsEscape(ArgAt(index))]_vars

\* A raw primitive was assembled after an earlier interpolation pushed values
C4_Witness ==
  /\ pc = "forEach"
  /\ index >= 2 /\ index <= Len(args)
  /\ IsRawPrimitive(args[index])
  /\ Len(values) > 0

\* C5: a Parameter(v) interpolation with a present payload appends exactly v
\* to values and renders `$n`, n being the length of values after the push.
C5_ParameterPushesOne ==
  [][AtCallback("EscapeParameter") =>
       /\ values' = Append(values, ArgAt(index).value)
       /\ text' = text \o strings[index + 1] \o "$" \o ToString(Len(values'))]_vars

\* A Parameter was assembled after earlier interpolations pushed values
C5_Witness ==
  /\ pc = "forEach"
  /\ index >= 2 /\ index <= Len(args)
  /\ Branch(args[index]) = "EscapeParameter"
  /\ Len(values) >= 2
  /\ values[Len(values)] = args[index].value

\* The interpolations with every escape value of absent payload replaced by a
\* raw empty string
Blanked(as) == [i \in 1..Len(as) |-> IF Branch(as[i]) = "skip" THEN Str("") ELSE as[i]]

\* C6: an escape value whose payload is undefined contributes nothing: the
\* call ends as the call with that slot holding the empty string does (same
\* text, same values, or both fail), and the callback goes on to the next
\* fragment.
C6_UndefinedPayloadIsNoOp ==
  /\ []((\E i \in 1..Len(args) : Branch(args[i]) = "skip") =>
          LET blank == parseTaggedTemplate(strings, Blanked(args))
          IN  /\ (pc = "done") =>
                   (~blank.threw /\ result = [text |-> blank.text, values |-> blank.values])
              /\ (pc = "threw") => blank.threw)
  /\ [][AtCallback("skip") =>
          /\ text' = text \o strings[index + 1]
          /\ values' = values
          /\ index' = index + 1
          /\ pc' = "forEach"]_vars

\* A template whose absent-payload escape value is followed by another slot
\* and non-empty fragments was assembled, after values were pushed
C6_Witness ==
  /\ pc = "done"
  /\ strings[1] # ""
  /\ Len(values) > 0
  /\ \E i \in 1..(Len(args) - 1) : Branch(args[i]) = "skip"

RECURSIVE StripDigits(_)
\* s without its decimal digits
StripDigits(s) ==
  IF Len(s) = 0 THEN ""
  ELSE (IF IsDigit(SubSeq(s, 1, 1)) THEN "" ELSE SubSeq(s, 1, 1))
       \o StripDigits(SubSeq(s, 2, Len(s)))

\* C7: KeysAndValues with an array of r >= 1 rows takes the column list from
\* the first row's k keys, renders one group of k placeholders per row, and
\* pushes r*k values in row-major order, row j's value for the first row's
\* key c (undefined when row j lacks c); other keys of later rows add nothing.
C7_RowsFollowFirstRowKeys ==
  [][(/\ AtCallback("EscapeKeysAndValues")
      /\ IsArray(ArgAt(index).value)
      /\ Len(ArgAt(index).value.items) >= 1) =>
       LET rows == ArgAt(index).value.items
           keys == ObjectKeys(rows[1])
           k == Len(keys)
           r == Len(rows)
           head == "(" \o Join([c \in 1..k |-> escapeIdentifier(keys[c])], ",")
                   \o ") VALUES "
           group == "(" \o Join([c \in 1..k |-> "$"], ",") \o ")"
       IN  /\ pc' = "forEach"
           /\ values' = values \o [n \in 1..(r * k) |->
                                     Get(rows[((n - 1) \div k) + 1], keys[((n - 1) % k) + 1])]
           /\ StartsWith(SlotText, head)
           /\ StripDigits(SubSeq(SlotText, Len(head) + 1, Len(SlotText)))
                = Join([j \in 1..r |-> group], ",")]_vars

\* A KeysAndValues array of two rows, the second lacking a key of the first,
\* was assembled
C7_Witness ==
  /\ pc = "forEach"
  /\ index >= 1 /\ index <= Len(args)
  /\ Branch(args[index]) = "EscapeKeysAndValues"
  /\ IsArray(args[index].value)
  /\ Len(args[index].value.items) >= 2
  /\ \E n \in 1..Len(values) : values[n] = Undefined

\* The positions of the double quotes of s
QuotePositions(s) == {j \in 1..Len(s) : SubSeq(s, j, j) = "\""}

\* The first of the positions at or after i, 0 when none
NextQuote(quotes, i) ==
  LET later == {j \in quotes : j >= i}
  IN  IF later = {} THEN 0 ELSE CHOOSE j \in later : \A m \in later : j <= m

RECURSIVE ReadIdentsFrom(_, _, _, _, _, _, _)
\* SQL reading of s from position i: a double quote opens a quoted identifier,
\* inside it two double quotes stand for one and a single one closes it.
\* Yields the identifiers read, the text outside them, and whether the
\* reading ends outside an identifier.
ReadIdentsFrom(s, quotes, i, inside, cur, idents, outside) ==
  LET q == NextQuote(quotes, i)
  IN  IF q = 0
      THEN [idents |-> idents, closed |-> ~inside,
            outside |-> IF inside THEN outside ELSE outside \o SubSeq(s, i, Len(s))]
      ELSE IF ~inside
           THEN ReadIdentsFrom(s, quotes, q + 1, TRUE, "", idents,
                               outside \o SubSeq(s, i, q - 1))
           ELSE IF (q + 1) \in quotes
                THEN ReadIdentsFrom(s, quotes, q + 2, TRUE,
                                    cur \o SubSeq(s, i, q - 1) \o "\"", idents, outside)
                ELSE ReadIdentsFrom(s, quotes, q + 1, FALSE, "",
                                    Append(idents, cur \o SubSeq(s, i, q - 1)), outside)

ReadIdents(s) == ReadIdentsFrom(s, QuotePositions(s), 1, FALSE, "", <<>>, "")

HasKey(obj, key) == \E i \in 1..Len(obj.entries) : obj.entries[i].key = key
ExpiryKeys == {"expiresIn", "expiresAt", "expiresAtEpoch"}

\* C8: KeysAndValuesWithExpiresIn with an expiresIn key in the payload,
\* whatever its value, renders the explicit keys without expiresIn, expiresAt
\* and expiresAtEpoch, then the columns expiresAt and expiresAtEpoch, and
\* pushes the explicit values followed by the expiresIn value twice, under two
\* consecutive placeholders.
C8_ExpiresInAlwaysSynthetic ==
  [][(/\ AtCallback("EscapeKeysAndValuesWithExpiresIn")
      /\ HasKey(ArgAt(index).value, "expiresIn")) =>
       LET payload == ArgAt(index).value
           explicit == SelectSeq(ObjectKeys(payload), LAMBDA key : key \notin ExpiryKeys)
           e == Get(payload, "expiresIn")
           ph == Placeholders(SlotText)
       IN  /\ ReadIdents(SlotText).idents = explicit \o <<"expiresAt", "expiresAtEpoch">>
           /\ values' = values \o [c \in 1..Len(explicit) |-> Get(payload, explicit[c])]
                               \o <<e, e>>
           /\ Len(ph) = Len(explicit) + 2
           /\ ph[Len(ph)] = ph[Len(ph) - 1] + 1]_vars

IsEmptyRows(arg) ==
  Branch(arg) = "EscapeKeysAndValues" /\ IsArray(arg.value) /\ Len(arg.value.items) = 0

\* C9: a KeysAndValues interpolation whose payload is an empty array makes the
\* call fail: the callback on it throws, and the call never returns a result.
C9_EmptyRowsThrow ==
  /\ []((\E i \in 1..Len(args) : IsEmptyRows(args[i])) =>
          /\ pc # "done"
          /\ result = NoResult
          /\ \A i \in 1..Len(args) : IsEmptyRows(args[i]) => index < i)
  /\ [][(pc = "forEach" /\ index < Len(strings) /\ IsEmptyRows(ArgAt(index))) =>
          pc' = "threw"]_vars

\* The call failed on an empty KeysAndValues array that follows another slot
C9_Witness ==
  /\ pc = "threw"
  /\ index >= 1
  /\ IsEmptyRows(ArgAt(index))

IdentifierKinds ==
  {"EscapeAndDictionary", "EscapeDictionary", "EscapeIdentifier", "EscapeKeysAndValues",
   "EscapeKeysAndValuesWithExpiresIn"}

\* The names an escape value of the first four kinds renders, in order
RenderedNames(arg) ==
  CASE arg.kind = "EscapeAndDictionary" ->
         ObjectKeys(Obj(SelectSeq(arg.value.entries, LAMBDA p : p.val # Undefined)))
    [] arg.kind = "EscapeDictionary" -> ObjectKeys(arg.value)
    [] arg.kind = "EscapeIdentifier" ->
         IF IsArray(arg.value) THEN [i \in 1..Len(arg.value.items) |-> arg.value.items[i].s]
         ELSE <<arg.value.s>>
    [] arg.kind = "EscapeKeysAndValues" ->
         ObjectKeys(IF IsArray(arg.value) THEN arg.value.items[1] ELSE arg.value)

\* C10: every key or identifier rendered by AndDictionary, Dictionary,
\* Identifier, KeysAndValues and KeysAndValuesWithExpiresIn is quoted so that
\* reading the slot as SQL gives back exactly the names, each quoted
\* identifier ending where its rendering ends; an Identifier renders only its
\* quoted names, joined by `, `.
C10_IdentifiersAreQuoted ==
  [][(/\ pc = "forEach" /\ index < Len(strings)
      /\ Branch(ArgAt(index)) \in IdentifierKinds
      /\ pc' = "forEach") =>
       LET arg == ArgAt(index)
           read == ReadIdents(SlotText)
       IN  /\ read.closed
           /\ IF arg.kind = "EscapeKeysAndValuesWithExpiresIn"
              THEN /\ \A n \in 1..Len(read.idents) :
                        read.idents[n] \in
                          {arg.value.entries[c].key : c \in 1..Len(arg.value.entries)}
                          \cup {"expiresAt", "expiresAtEpoch"}
                   /\ SelectSeq(read.idents, LAMBDA name : name \notin ExpiryKeys)
                        = SelectSeq(ObjectKeys(arg.value), LAMBDA key : key \notin ExpiryKeys)
              ELSE read.idents = RenderedNames(arg)
           /\ (arg.kind = "EscapeIdentifier") =>
                (read.outside = Join([n \in 1..Len(read.idents) |-> ""], ", "))]_vars

\* An Identifier list with a name that holds a double quote was assembled
C10_Witness ==
  /\ pc = "forEach"
  /\ index >= 1 /\ index <= Len(args)
  /\ Branch(args[index]) = "EscapeIdentifier"
  /\ IsArray(args[index].value)
  /\ \E i \in 1..Len(args[index].value.items) :
       \E j \in 1..Len(args[index].value.items[i].s) :
         SubSeq(args[index].value.items[i].s, j, j) = "\""

-----------------------------------------------------------------------------
(* Properties of generateDbErrorMessage *)

\* The rules in table order, and the rules whose pattern matches a message
RuleOrder ==
  <<"tooManyClients", "queryTimeout", "deleteFk", "insertFk", "duplicateKey",
    "tooLong", "missingRelation", "nullValues", "undefinedValues">>

PatternMatches(rule, m) ==
  CASE rule = "tooManyClients" -> TooManyClientsExec(m).matched
    [] rule = "queryTimeout" -> QueryTimeoutExec(m).matched
    [] rule = "deleteFk" -> DeleteFkExec(m).matched
    [] rule = "insertFk" -> InsertFkExec(m).matched
    [] rule = "duplicateKey" -> DuplicateKeyExec(m).matched
    [] rule = "tooLong" -> TooLongExec(m).matched
    [] rule = "missingRelation" -> MissingRelationExec(m).matched
    [] rule = "nullValues" -> NullValuesExec(m).matched
    [] rule = "undefinedValues" -> UndefinedValuesExec(m).matched

MatchingRules(m) == {i \in 1..Len(RuleOrder) : PatternMatches(RuleOrder[i], m)}

\* The message templates a result message is an instance of
Templates(msg) ==
  {t \in {"tooManyClients", "queryTimeout", "deleteFk", "insertOrDuplicate", "tooLong",
          "missingRelation", "nullValues", "undefinedValues", "default"} :
     CASE t = "tooManyClients" ->
            StartsWith(msg, "Too many database connections, try again later. Running query: ")
       [] t = "queryTimeout" -> StartsWith(msg, "Query timed out. Running query: ")
       [] t = "deleteFk" -> StartsWith(msg, "Could not ") /\ Includes(msg, " item from \"")
       [] t = "insertOrDuplicate" ->
            StartsWith(msg, "Could not ") /\ Includes(msg, "\" into \"")
            /\ Includes(msg, "\" table. Detail: ")
       [] t = "tooLong" ->
            StartsWith(msg, "Could not ") /\ Includes(msg, " item into \"")
            /\ Includes(msg, "\" table. A value is too long for db type \"")
       [] t = "missingRelation" ->
            StartsWith(msg, "Could not perform ")
            /\ Includes(msg, " operation on missing table \"")
       [] t = "nullValues" ->
            StartsWith(msg, "Could not ") /\ Includes(msg, "\" table. Unexpected null value for \"")
       [] t = "undefinedValues" ->
            StartsWith(msg, "Unexpected undefined value applying data to database. Args: ")
       [] t = "default" -> StartsWith(msg, "Unrecognized Database Error: ")}

\* The templates the rule of table position i may fill in
TemplatesOf(i) ==
  CASE RuleOrder[i] \in {"insertFk", "duplicateKey"} -> {"insertOrDuplicate"}
    [] RuleOrder[i] = "tooLong" -> {"tooLong", "default"}
    [] OTHER -> {RuleOrder[i]}

\* C11: on every error on which generateDbErrorMessage returns, isTimeoutError
\* is true exactly when the message is exactly "Query read timeout",
\* isTooManyConnectionsError is true exactly when the message is exactly
\* "sorry, too many clients already", the two flags are never both true, and
\* the result message is an instance of one template only: the template of the
\* first rule in table order whose pattern matches the message (the default
\* template when none does).
C11_FlagsExactFirstRuleWins ==
  dbpc = "returned" =>
    LET m == error.message.s
        matching == MatchingRules(m)
    IN  /\ results.isTimeoutError <=> (m = "Query read timeout")
        /\ results.isTooManyConnectionsError <=> (m = "sorry, too many clients already")
        /\ ~(results.isTimeoutError /\ results.isTooManyConnectionsError)
        /\ Cardinality(Templates(results.message)) = 1
        /\ IF matching = {} THEN Templates(results.message) = {"default"}
           ELSE LET first == CHOOSE i \in matching : \A j \in matching : i <= j
                IN  Templates(results.message) \subseteq TemplatesOf(first)

C11_Witness ==
  /\ dbpc = "returned"
  /\ error.message = Str("Query read timeout")
  /\ results.isTimeoutError
  /\ ~results.isTooManyConnectionsError

\* C12: for every error whose message matches none of the nine patterns the
\* result is the default one: the message "Unrecognized Database Error:
\* {message}. Detail: {detail}" built from the raw message and detail, and
\* both flags false.
C12_UnmatchedGivesDefault ==
  (dbpc = "returned" /\ MatchingRules(error.message.s) = {}) =>
    /\ results.message =
         "Unrecognized Database Error: " \o error.message.s \o ". Detail: "
         \o (IF error.detail = Undefined THEN "undefined" ELSE error.detail.s)
    /\ ~results.isTimeoutError
    /\ ~results.isTooManyConnectionsError

C12_Witness ==
  /\ dbpc = "returned"
  /\ error.message = Str("some other db failure")
  /\ error.detail # Undefined
  /\ Includes(results.message, ". Detail: Key (email)")

\* The positions of the query text where UPDATE or INSERT starts
VerbPositions(q) ==
  {p \in 1..(Len(q) - 5) : SubSeq(q, p, p + 5) \in {"UPDATE", "INSERT"}}

IsQuote(q, i) == SubSeq(q, i, i) = "\""

\* <<p, a, b>>: a verb at p followed later by a quoted name between the quotes
\* at a and b
VerbThenQuotedName(q) ==
  {t \in VerbPositions(q) \X (1..Len(q)) \X (1..Len(q)) :
     /\ t[2] > t[1] + 5
     /\ t[3] > t[2] + 1
     /\ IsQuote(q, t[2])
     /\ IsQuote(q, t[3])}

\* The same, with at least one character between the verb and the opening
\* quote and no line break from the verb to the closing quote
VerbThenQuotedNameOnLine(q) ==
  {t \in VerbThenQuotedName(q) :
     t[2] > t[1] + 6 /\ ~HasNewline(SubSeq(q, t[1] + 6, t[3] - 1))}

\* The first of a set of such triples: leftmost verb, then nearest quotes
FirstTriple(ts) ==
  CHOOSE t \in ts : \A u \in ts :
    \/ t[1] < u[1]
    \/ t[1] = u[1] /\ t[2] < u[2]
    \/ t[1] = u[1] /\ t[2] = u[2] /\ t[3] <= u[3]

TooLongPrefix == "value too long for type "

DefaultMessage ==
  "Unrecognized Database Error: " \o error.message.s \o ". Detail: "
  \o (IF error.detail = Undefined THEN "undefined" ELSE error.detail.s)

\* The message of the value-too-long rule for the verb and quoted name of t
TooLongMessage(q, t) ==
  "Could not " \o SubSeq(q, t[1], t[1] + 5) \o " item into \""
  \o SubSeq(q, t[2] + 1, t[3] - 1) \o "\" table. A value is too long for db type \""
  \o SubSeq(error.message.s, Len(TooLongPrefix) + 1, Len(error.message.s)) \o "\"."

AtTooLongResult == dbpc = "returned" /\ TooLongExec(error.message.s).matched

\* C13 as stated: for a message matching `value too long for type T`, when
\* the query text does not contain UPDATE or INSERT followed later by a
\* double-quoted name the result is exactly the default result, and when it
\* does the message names that method, that first quoted name and T.
C13_TooLongNamesVerbAndTable ==
  AtTooLongResult =>
    LET q == ErrorQuery(error)
    IN  /\ ~results.isTimeoutError /\ ~results.isTooManyConnectionsError
        /\ results.message =
             IF VerbThenQuotedName(q) = {} THEN DefaultMessage
             ELSE TooLongMessage(q, FirstTriple(VerbThenQuotedName(q)))

\* C13 amended: the verb and the quoted name must be on one line, separated by
\* at least one character; otherwise the result is exactly the default result.
C13_TooLongNamesVerbAndTableOnLine ==
  AtTooLongResult =>
    LET q == ErrorQuery(error)
    IN  /\ ~results.isTimeoutError /\ ~results.isTooManyConnectionsError
        /\ results.message =
             IF VerbThenQuotedNameOnLine(q) = {} THEN DefaultMessage
             ELSE TooLongMessage(q, FirstTriple(VerbThenQuotedNameOnLine(q)))

C13_Witness ==
  /\ AtTooLongResult
  /\ VerbThenQuotedNameOnLine(ErrorQuery(error)) # {}
  /\ results.message =
       "Could not UPDATE item into \"users\" table. A value is too long for db type \"character varying(255)\"."

IsWhitespace(s, i) == SubSeq(s, i, i) \in {" ", "\n", "\t", "\r"}

\* The first token of s longer than one character when s is split on
\* whitespace; "undefined" when there is none
FirstWord(s) ==
  LET n == Len(s)
      begins == {i \in 1..(n - 1) :
                   /\ ~IsWhitespace(s, i)
                   /\ ~IsWhitespace(s, i + 1)
                   /\ (i = 1 \/ IsWhitespace(s, i - 1))}
  IN  IF begins = {} THEN "undefined"
      ELSE LET i == CHOOSE i \in begins : \A j \in begins : i <= j
               ends == {e \in i..n : e = n \/ IsWhitespace(s, e + 1)}
           IN  SubSeq(s, i, CHOOSE e \in ends : \A f \in ends : e <= f)

\* C14: the {method} of a classified message is the first token longer than
\* one character of the query text split on whitespace (spaces, newlines,
\* tabs): for a query that starts with a newline directly followed by the SQL
\* verb, it is the verb without the newline.
C14_MethodIsFirstWord ==
  dbpc = "returned" =>
    LET method == FirstWord(ErrorQuery(error))
        rule == Rule(error.message.s)
    IN  /\ rule \in {"deleteFk", "insertFk", "duplicateKey", "nullValues"} =>
             StartsWith(results.message, "Could not " \o method \o " item ")
        /\ rule = "missingRelation" =>
             StartsWith(results.message, "Could not perform " \o method \o " operation ")

-----------------------------------------------------------------------------
(* Properties of DBError *)

AtConstructedFromRaw == ctorpc = "constructed" /\ ~IsDBError(originalError)

TimeoutMessage == Str("Query read timeout")
TooManyClientsMessage == Str("sorry, too many clients already")

\* C15 as stated: a DBError constructed from a raw (non-DBError) error has
\* statusCode 429 exactly when the raw error's message is "Query read timeout"
\* or "sorry, too many clients already", and 400 otherwise, also when the raw
\* error is not a DatabaseError.
C15_StatusFollowsMessage ==
  AtConstructedFromRaw =>
    dbError.statusCode =
      IF MessageOf(originalError) \in {TimeoutMessage, TooManyClientsMessage}
      THEN 429 ELSE 400

\* C15 amended: statusCode is 429 exactly when the raw error's message is
\* "Query read timeout", or the raw error is a DatabaseError and its message is
\* "sorry, too many clients already"; it is 400 in every other case, among
\* them an error of another class with the too-many-clients message.
C15_StatusFollowsClassifiedMessage ==
  AtConstructedFromRaw =>
    dbError.statusCode =
      IF \/ MessageOf(originalError) = TimeoutMessage
         \/ /\ IsDatabaseError(originalError)
            /\ MessageOf(originalError) = TooManyClientsMessage
      THEN 429 ELSE 400

C15_Witness ==
  /\ AtConstructedFromRaw
  /\ originalError.type = "error"
  /\ originalError.class = "Error"
  /\ originalError.message = TimeoutMessage
  /\ dbError.statusCode = 429

\* The message of an input that is not classified: a string is its own message
PlainMessage(e) == IF e.type = "string" THEN e.s ELSE e.message.s

\* C16: a DBError constructed from an error that is not a DatabaseError and
\* whose message contains neither "Query read timeout" nor "UNDEFINED_VALUE"
\* has the original message unchanged, statusCode 400, and the original error
\* as originalError (a string is first wrapped in an Error with that message).
C16_UnrecognisedErrorsPassThrough ==
  (/\ AtConstructedFromRaw
   /\ ~IsDatabaseError(originalError)
   /\ ~Includes(PlainMessage(originalError), "Query read timeout")
   /\ ~Includes(PlainMessage(originalError), "UNDEFINED_VALUE")) =>
    /\ dbError.message = Str(PlainMessage(originalError))
    /\ dbError.statusCode = 400
    /\ dbError.originalError =
         IF originalError.type = "string"
         THEN [type |-> "error", class |-> "Error", message |-> originalError,
               detail |-> Undefined, table |-> Undefined, query |-> Undefined,
               parameters |-> Undefined, args |-> Undefined]
         ELSE originalError

C16_Witness ==
  /\ AtConstructedFromRaw
  /\ originalError = Str("connect ECONNREFUSED 127.0.0.1:5432")
  /\ dbError.originalError.type = "error"
  /\ dbError.message = originalError

-----------------------------------------------------------------------------
(* Properties of examineFilterKeys *)

\* The values of the filter keys object (none when it is missing)
FilterValues(fk) ==
  IF fk.type = "object" THEN {fk.entries[i].val : i \in 1..Len(fk.entries)} ELSE {}

HasKeys(fk) == fk.type = "object" /\ Len(fk.entries) > 0

\* C18: areEmptyStringFilterKeys is true if and only if at least one value of
\* the filter keys object is the empty string, wherever its key stands in the
\* key order (also after a key whose value is defined and non-empty).
C18_EmptyStringAnywhere ==
  fkpc = "returned" =>
    (examined.areEmptyStringFilterKeys <=> Str("") \in FilterValues(filterKeys))

\* C19: areAllFilterKeysUndefined is true if and only if the object has at
\* least one key and every value is undefined (false for a missing or falsy
\* input and for an object without keys), and exactly one of
\* areFilterKeysFalsy, areFilterKeysEmpty and "has keys" describes the input.
C19_AllUndefinedNeedsKeys ==
  fkpc = "returned" =>
    /\ examined.areAllFilterKeysUndefined <=>
         (HasKeys(filterKeys) /\ FilterValues(filterKeys) = {Undefined})
    /\ examined.areFilterKeysFalsy <=> filterKeys \in {Undefined, Null}
    /\ examined.areFilterKeysEmpty <=>
         (filterKeys.type = "object" /\ Len(filterKeys.entries) = 0)
    /\ ~(examined.areFilterKeysFalsy /\ examined.areFilterKeysEmpty)

-----------------------------------------------------------------------------
(* Properties of PgClient *)

\* C17: every failure of query and cursorQuery, raised by the connect step or
\* by the underlying query call, reaches the caller as a DBError built from
\* the raw error after it was given query = the attempted SQL text and
\* parameters = the attempted values list; no other error leaves these methods.
C17_FailuresReachCallerAsDBError ==
  \A i \in 1..Len(calls) :
    (calls[i].op \in {"query", "cursorQuery"} /\ calls[i].pc = "rejected") =>
      /\ IsDBError(calls[i].thrown)
      /\ calls[i].thrown.originalError.query = calls[i].queryConfig.text
      /\ calls[i].thrown.originalError.parameters = calls[i].queryConfig.values

\* The number of times client stands in the registry
Occurrences(registry, client) ==
  Cardinality({k \in 1..Len(registry) : registry[k] = client})

\* end() was the last call started on the client and has completed
EndHasRun ==
  /\ Len(calls) > 0
  /\ calls[Len(calls)].op = "end"
  /\ calls[Len(calls)].pc = "resolved"

\* C20: for an auto-closing PgClient, under every interleaving of connect(),
\* query() and end() calls, the underlying pg client stands in
\* PgClient._openClients at most once, and not at all after end() has run.
C20_RegistryHoldsClientAtMostOnce ==
  (clientpc = "live" /\ autoClose) =>
    /\ Occurrences(openClients, ThisPgClient) <= 1
    /\ EndHasRun => Occurrences(openClients, ThisPgClient) = 0

-----------------------------------------------------------------------------
(* Frame of parseTaggedTemplate *)

\* C21: parseTaggedTemplate never mutates its inputs. No callback of a call
\* changes the fragments array, the interpolation list or the payload of any
\* escape value (the EscapeKeysAndValuesWithExpiresIn branch removes expiresIn,
\* expiresAt and expiresAtEpoch from a copy only), and so, when the call
\* returns, a second call with the same arguments returns an equal
\* {text, values} result.
C21_InputsUnchangedCallsRepeat ==
  [][/\ pc = "forEach" => strings' = strings /\ args' = args
     /\ (pc = "forEach" /\ pc' = "done") =>
          LET again == parseTaggedTemplate(strings', args')
          IN  /\ ~again.threw
              /\ result' = [text |-> again.text, values |-> again.values]]_vars

\* A call has returned whose interpolations hold an
\* EscapeKeysAndValuesWithExpiresIn payload with expiresIn, expiresAt and
\* expiresAtEpoch: the keys were removed while rendering (the text has the
\* generated expiry columns once each) and the payload still has all three
C21_Witness ==
  /\ pc = "done"
  /\ \E i \in 1..Len(args) :
       /\ args[i] = Escape("EscapeKeysAndValuesWithExpiresIn", RowExpiresAll)
       /\ ObjectKeys(args[i].value) = <<"expiresAt", "id", "expiresIn", "expiresAtEpoch">>
  /\ Includes(result.text, "(\"id\", \"expiresAt\", \"expiresAtEpoch\") VALUES")

=============================================================================
